---- MODULE Spec2Model ----
(***************************************************************************)
(* Model of src/utils/cpUtils.ts: cpUtils.executeCommand.                  *)
(*                                                                         *)
(* One call of executeCommand spawns a child process, registers handlers   *)
(* for the stdout/stderr 'data' events and for the child's 'error' and     *)
(* 'close' events, awaits a promise that these handlers settle, and then   *)
(* returns the stdout accumulator.  Every handler runs to completion; the  *)
(* continuation of the await is a microtask that runs before the next      *)
(* event is delivered.                                                     *)
(*                                                                         *)
(* A text is a sequence of pieces.  The fixed parts of a template literal  *)
(* are kept as one piece each; commands, arguments, exit codes and process *)
(* output are sequences of single characters.                              *)
(***************************************************************************)
EXTENDS Integers, Sequences, FiniteSets

\* ------------------------------------------------------------------ bounds
MaxChunks == 2       \* chunks one process emits when a single call runs
MaxChunksConc == 1   \* chunks each process emits when two calls overlap

\* ------------------------------------------------------------- input sets
Calls == {1, 2}

None == <<>>
Some(x) == <<x>>

Platforms == {"posix", "win32"}

Commands == {<<"l", "s">>, <<"g", "i", "t">>}

ArgLists == {<<>>, << <<"-", "l">> >>, << <<"-", "l">>, <<"x">> >>}

WorkingDirectories == {None, Some(""), Some("/work")}

\* A chunk is a Buffer: a non-empty sequence of bytes.  "a" is an ASCII
\* byte, "C3" "A9" is the two-byte UTF-8 encoding of one character.
Chunks == {<<"a">>, <<"C3">>, <<"C3", "A9">>}

\* Exit codes of a process that ran; None is the null code of a process
\* that was ended by a signal.
ExitCodes == {Some(0), Some(1), Some(127), None}

\* Negative errno values of a failed spawn (ENOENT, EACCES).
SpawnErrnos == {-2, -13}

Requests ==
    [outputChannel : BOOLEAN, workingDirectory : WorkingDirectories,
     command : Commands, args : ArgLists]

ConcRequests ==
    [outputChannel : BOOLEAN, workingDirectory : {None},
     command : {<<"l", "s">>}, args : {<< <<"-", "l">> >>}]

NoRequest ==
    [outputChannel |-> FALSE, workingDirectory |-> None,
     command |-> <<>>, args |-> <<>>]

VARIABLES
    platform,                   \* the platform os.EOL and os.tmpdir() belong to
    req,                        \* the arguments of each call
    pc,                         \* "none", "idle", "awaiting", "done"
    child,                      \* the ChildProcess of each call
    chunksLeft,                 \* chunks the process will still write
    cmdOutput,                  \* stdout accumulator
    cmdOutputIncludingStderr,   \* stdout+stderr accumulator
    promise,                    \* the promise created by the call
    result,                     \* the outcome of the async function
    effects,                    \* calls made on cp, the channel, resolve/reject
    events,                     \* events delivered to the call's handlers
    connectedMongoDB,           \* ext.connectedMongoDB
    globalState,                \* context.globalState value under connectedDBKey
    clientLog,                  \* calls made on languageClient, in order
    tree,                       \* ids of the database nodes in the tree
    tasks,                      \* the command handler invocations
    loadTask                    \* loadPersistedMongoDBTask

mongoVars == <<connectedMongoDB, globalState, clientLog, tree, tasks, loadTask>>

vars == <<platform, req, pc, child, chunksLeft, cmdOutput,
          cmdOutputIncludingStderr, promise, result, effects, events,
          connectedMongoDB, globalState, clientLog, tree, tasks, loadTask>>

\* ------------------------------------------------------------ pure helpers
RECURSIVE Join(_, _)
Join(args, sep) ==
    IF args = <<>> THEN <<>>
    ELSE IF Len(args) = 1 THEN args[1]
    ELSE args[1] \o <<sep>> \o Join(Tail(args), sep)

Digit(d) == <<"0", "1", "2", "3", "4", "5", "6", "7", "8", "9">>[d + 1]

RECURSIVE NatToText(_)
NatToText(n) ==
    IF n < 10 THEN <<Digit(n)>>
    ELSE NatToText(n \div 10) \o <<Digit(n % 10)>>

\* `${code}` for a number or null
CodeText(code) ==
    IF code = None THEN <<"n", "u", "l", "l">>
    ELSE IF code[1] < 0 THEN <<"-">> \o NatToText(0 - code[1])
    ELSE NatToText(code[1])

\* Buffer.toString(): UTF-8 decoding, an incomplete or stray byte of a
\* multi-byte sequence becomes the replacement character U+FFFD.
RECURSIVE BufferToString(_)
BufferToString(data) ==
    IF data = <<>> THEN <<>>
    ELSE IF data[1] = "C3"
        THEN IF Len(data) >= 2 /\ data[2] = "A9"
             THEN <<"e-acute">> \o BufferToString(Tail(Tail(data)))
             ELSE <<"U+FFFD">> \o BufferToString(Tail(data))
    ELSE IF data[1] = "A9" THEN <<"U+FFFD">> \o BufferToString(Tail(data))
    ELSE <<data[1]>> \o BufferToString(Tail(data))

EOL == IF platform = "win32" THEN <<"\r", "\n">> ELSE <<"\n">>

TmpDir == IF platform = "win32" THEN "C:\\Temp" ELSE "/tmp"

ResolveCwdStrict(workingDirectory) ==
    IF workingDirectory # None THEN workingDirectory[1] ELSE TmpDir

\* workingDirectory || os.tmpdir(): the empty string is falsy
ResolveCwd(workingDirectory) ==
    IF workingDirectory # None /\ workingDirectory[1] # ""
    THEN workingDirectory[1] ELSE TmpDir

FormattedArgs(r) == Join(r.args, " ")

RunningLine(r) ==
    <<"Running command: \"">> \o r.command \o <<" ">> \o FormattedArgs(r)
        \o <<"\"...">>

FinishedLine(r) ==
    <<"Finished running command: \"">> \o r.command \o <<" ">>
        \o FormattedArgs(r) \o <<"\".">>

GenericMessage(r) ==
    <<"Failed to run \"">> \o r.command
        \o <<"\" command. Check output window for more details.">>

DetailedMessage(r, code, output) ==
    <<"Command \"">> \o r.command \o <<" ">> \o FormattedArgs(r)
        \o <<"\" failed with exit code \"">> \o CodeText(code) \o <<"\":">>
        \o EOL \o output

\* Error objects: new Error(message) has no errno; a spawn error has one.
NewError(message) == [message |-> message, errno |-> 0]

SpawnError(errno) == [message |-> <<"spawn failed">>, errno |-> errno]

NoError == [message |-> <<>>, errno |-> 0]

Effect(op, text) == [op |-> op, text |-> text]

\* ---------------------------------------------------------------- promise
NewPromiseSettled == [state |-> "fulfilled", reason |-> NoError]

NewPromise == [state |-> "pending", reason |-> NoError]

Resolve(p) ==
    IF p.state = "pending" THEN [state |-> "fulfilled", reason |-> NoError]
    ELSE p

RejectOverwrite(p, e) == [state |-> "rejected", reason |-> e]

Reject(p, e) ==
    IF p.state = "pending" THEN [state |-> "rejected", reason |-> e]
    ELSE p

\* The accumulators are local variables of the call.
SlotShared(c) == CHOOSE s \in Calls : \A t \in Calls : s <= t

Slot(c) == c

\* A settled promise whose await has not resumed yet: its continuation is a
\* microtask and runs before any further event is delivered.
MicrotaskPending ==
    \E c \in Calls : pc[c] = "awaiting" /\ promise[c].state # "pending"

NoChild ==
    [phase |-> "none", command |-> <<>>, args |-> <<>>, cwd |-> "",
     shell |-> FALSE]

\* no promise exists before the call creates one
NoPromise == [state |-> "pending", reason |-> NoError]

NoResult == [state |-> "pending", value |-> <<>>, error |-> NoError]

\* ------------------------------------------------- registerMongoCommands
MaxTasks == 1        \* command invocations by the user, besides activation

Nodes == {"db1", "db2"}

UserTasks == 1..MaxTasks

\* task 0 is the 'cosmosDB.connectMongoDB' command loadPersistedMongoDB runs
LoadChild == 0

TaskIds == {LoadChild} \cup UserTasks

NoTask ==
    [kind |-> "none", pc |-> "none", node |-> None, oldNodeId |-> None,
     refreshed |-> <<>>, read |-> None, readAfterLoad |-> FALSE]

\* nothing of registerMongoCommands runs
MongoIdle ==
    /\ connectedMongoDB = None
    /\ globalState = None
    /\ clientLog = <<>>
    /\ tree = {}
    /\ tasks = [t \in TaskIds |-> NoTask]
    /\ loadTask = [pc |-> "settled", persistedNodeId |-> None]

\* ------------------------------------------------------------------- Init
InitCommon ==
    /\ platform \in Platforms
    /\ child = [c \in Calls |-> NoChild]
    /\ cmdOutput = [c \in Calls |-> <<>>]
    /\ cmdOutputIncludingStderr = [c \in Calls |-> <<>>]
    /\ promise = [c \in Calls |-> NoPromise]
    /\ result = [c \in Calls |-> NoResult]
    /\ effects = [c \in Calls |-> <<>>]
    /\ events = [c \in Calls |-> <<>>]

\* one call
Init ==
    /\ InitCommon
    /\ MongoIdle
    /\ \E r \in Requests : req = [c \in Calls |-> IF c = 1 THEN r ELSE NoRequest]
    /\ pc = [c \in Calls |-> IF c = 1 THEN "idle" ELSE "none"]
    /\ chunksLeft = [c \in Calls |-> IF c = 1 THEN MaxChunks ELSE 0]

\* two overlapping calls
InitConc ==
    /\ InitCommon
    /\ MongoIdle
    /\ req \in [Calls -> ConcRequests]
    /\ pc = [c \in Calls |-> "idle"]
    /\ chunksLeft = [c \in Calls |-> MaxChunksConc]

\* ---------------------------------------------------------------- actions
StartEffectsNoLine(r) == <<Effect("spawn", <<>>)>>

\* lines 21-25: cp.spawn, then the 'Running command' line
StartEffects(r) ==
    <<Effect("spawn", <<>>)>>
        \o (IF r.outputChannel THEN <<Effect("appendLine", RunningLine(r))>>
            ELSE <<>>)

\* executeCommand up to its await
Call(c) ==
    /\ pc[c] = "idle"
    /\ pc' = [pc EXCEPT ![c] = "awaiting"]
    /\ cmdOutput' = [cmdOutput EXCEPT ![Slot(c)] = <<>>]
    /\ cmdOutputIncludingStderr' = [cmdOutputIncludingStderr EXCEPT ![Slot(c)] = <<>>]
    /\ child' = [child EXCEPT ![c] =
                    [phase |-> "running", command |-> req[c].command,
                     args |-> req[c].args,
                     cwd |-> ResolveCwd(req[c].workingDirectory),
                     shell |-> TRUE]]
    /\ promise' = [promise EXCEPT ![c] = NewPromise]
    /\ effects' = [effects EXCEPT ![c] = StartEffects(req[c])]
    /\ UNCHANGED <<mongoVars, platform, req, chunksLeft, result, events>>

ChannelAppendTwice(c, log, text) ==
    IF req[c].outputChannel
    THEN Append(Append(log, Effect("append", text)), Effect("append", text))
    ELSE log

\* if (outputChannel) { outputChannel.append(data); }
ChannelAppend(c, log, text) ==
    IF req[c].outputChannel THEN Append(log, Effect("append", text)) ELSE log

StderrToStdoutLeak(out, text) == out \o text

\* the stderr handler leaves cmdOutput alone
StderrToStdout(out, text) == out

\* childProc.stdout.on('data', ...)
OnStdoutData(c, data) ==
    /\ ~MicrotaskPending
    /\ child[c].phase = "running"
    /\ chunksLeft[c] > 0
    /\ LET text == BufferToString(data) IN
        /\ cmdOutput' = [cmdOutput EXCEPT ![Slot(c)] = @ \o text]
        /\ cmdOutputIncludingStderr' =
               [cmdOutputIncludingStderr EXCEPT ![Slot(c)] = @ \o text]
        /\ effects' = [effects EXCEPT ![c] = ChannelAppend(c, @, text)]
    /\ events' = [events EXCEPT ![c] =
                     Append(@, [type |-> "stdout", data |-> data, code |-> None])]
    /\ chunksLeft' = [chunksLeft EXCEPT ![c] = @ - 1]
    /\ UNCHANGED <<mongoVars, platform, req, pc, child, promise, result>>

\* childProc.stderr.on('data', ...)
OnStderrData(c, data) ==
    /\ ~MicrotaskPending
    /\ child[c].phase = "running"
    /\ chunksLeft[c] > 0
    /\ LET text == BufferToString(data) IN
        /\ cmdOutput' = [cmdOutput EXCEPT ![Slot(c)] = StderrToStdout(@, text)]
        /\ cmdOutputIncludingStderr' =
               [cmdOutputIncludingStderr EXCEPT ![Slot(c)] = @ \o text]
        /\ effects' = [effects EXCEPT ![c] = ChannelAppend(c, @, text)]
    /\ events' = [events EXCEPT ![c] =
                     Append(@, [type |-> "stderr", data |-> data, code |-> None])]
    /\ chunksLeft' = [chunksLeft EXCEPT ![c] = @ - 1]
    /\ UNCHANGED <<mongoVars, platform, req, pc, child, promise, result>>

\* childProc.on('error', reject): the spawn failed, before any output
OnError(c, errno) ==
    /\ ~MicrotaskPending
    /\ child[c].phase = "running"
    /\ events[c] = <<>>
    /\ child' = [child EXCEPT ![c].phase = "errored"]
    /\ promise' = [promise EXCEPT ![c] = Reject(@, SpawnError(errno))]
    /\ effects' = [effects EXCEPT ![c] =
                      Append(@, Effect("reject", SpawnError(errno).message))]
    /\ events' = [events EXCEPT ![c] =
                     Append(@, [type |-> "error", data |-> <<>>,
                                code |-> Some(errno)])]
    /\ UNCHANGED <<mongoVars, platform, req, pc, chunksLeft, cmdOutput,
                   cmdOutputIncludingStderr, result>>

\* The codes a 'close' event can carry: the exit code (or null) of a
\* process that ran, the negative errno after a failed spawn.
CloseCodes(c) ==
    IF child[c].phase = "running" THEN ExitCodes
    ELSE IF child[c].phase = "errored" THEN {events[c][1].code}
    ELSE {}

CloseEffectsShowAfter(r, code, output) ==
    IF code # Some(0)
    THEN IF r.outputChannel
         THEN <<Effect("newError", GenericMessage(r)),
                Effect("reject", GenericMessage(r)),
                Effect("show", <<>>)>>
         ELSE <<Effect("newError", DetailedMessage(r, code, output)),
                Effect("reject", DetailedMessage(r, code, output))>>
    ELSE (IF r.outputChannel
          THEN <<Effect("appendLine", FinishedLine(r))>> ELSE <<>>)
         \o <<Effect("resolve", <<>>)>>

CloseEffectsFinishedAlways(r, code, output) ==
    (IF r.outputChannel
     THEN <<Effect("appendLine", FinishedLine(r))>> ELSE <<>>)
    \o (IF code # Some(0)
        THEN IF r.outputChannel
             THEN <<Effect("show", <<>>),
                    Effect("newError", GenericMessage(r)),
                    Effect("reject", GenericMessage(r))>>
             ELSE <<Effect("newError", DetailedMessage(r, code, output)),
                    Effect("reject", DetailedMessage(r, code, output))>>
        ELSE <<Effect("resolve", <<>>)>>)

\* lines 46-61: what the 'close' handler does, in order
CloseEffects(r, code, output) ==
    IF code # Some(0)
    THEN IF r.outputChannel
         THEN <<Effect("show", <<>>),
                Effect("newError", GenericMessage(r)),
                Effect("reject", GenericMessage(r))>>
         ELSE <<Effect("newError", DetailedMessage(r, code, output)),
                Effect("reject", DetailedMessage(r, code, output))>>
    ELSE (IF r.outputChannel
          THEN <<Effect("appendLine", FinishedLine(r))>> ELSE <<>>)
         \o <<Effect("resolve", <<>>)>>

\* resolve() and reject(e) as the handler calls them
RECURSIVE Settle(_, _)
Settle(p, effs) ==
    IF effs = <<>> THEN p
    ELSE IF effs[1].op = "reject"
        THEN Settle(Reject(p, NewError(effs[1].text)), Tail(effs))
    ELSE IF effs[1].op = "resolve" THEN Settle(Resolve(p), Tail(effs))
    ELSE Settle(p, Tail(effs))

FailureOutputStdoutOnly(c) == cmdOutput[Slot(c)]

\* the output the detailed message embeds
FailureOutput(c) == cmdOutputIncludingStderr[Slot(c)]

\* childProc.on('close', (code) => ...)
OnClose(c, code) ==
    /\ ~MicrotaskPending
    /\ code \in CloseCodes(c)
    /\ LET effs == CloseEffects(req[c], code, FailureOutput(c)) IN
        /\ effects' = [effects EXCEPT ![c] = @ \o effs]
        /\ promise' = [promise EXCEPT ![c] = Settle(@, effs)]
    /\ child' = [child EXCEPT ![c].phase = "closed"]
    /\ events' = [events EXCEPT ![c] =
                     Append(@, [type |-> "close", data |-> <<>>, code |-> code])]
    /\ UNCHANGED <<mongoVars, platform, req, pc, chunksLeft, cmdOutput,
                   cmdOutputIncludingStderr, result>>

\* the await resumes: return cmdOutput, or throw the rejection
Resume(c) ==
    /\ pc[c] = "awaiting"
    /\ promise[c].state # "pending"
    /\ pc' = [pc EXCEPT ![c] = "done"]
    /\ result' = [result EXCEPT ![c] =
                     IF promise[c].state = "fulfilled"
                     THEN [state |-> "resolved", value |-> cmdOutput[Slot(c)],
                           error |-> NoError]
                     ELSE [state |-> "rejected", value |-> <<>>,
                           error |-> promise[c].reason]]
    /\ UNCHANGED <<mongoVars, platform, req, child, chunksLeft, cmdOutput,
                   cmdOutputIncludingStderr, promise, effects, events>>

Terminate(c) ==
    \/ \E errno \in SpawnErrnos : OnError(c, errno)
    \/ \E code \in ExitCodes \cup {Some(e) : e \in SpawnErrnos} : OnClose(c, code)

Next ==
    \/ \E c \in Calls : Call(c)
    \/ \E c \in Calls, data \in Chunks : OnStdoutData(c, data)
    \/ \E c \in Calls, data \in Chunks : OnStderrData(c, data)
    \/ \E c \in Calls, errno \in SpawnErrnos : OnError(c, errno)
    \/ \E c \in Calls, code \in ExitCodes \cup {Some(e) : e \in SpawnErrnos} :
            OnClose(c, code)
    \/ \E c \in Calls : Resume(c)

Spec == Init /\ [][Next]_vars

SpecConc == InitConc /\ [][Next]_vars

\* every spawned process eventually emits 'close' or 'error', and the
\* microtask queue is drained
LiveSpec ==
    /\ Init /\ [][Next]_vars
    /\ \A c \in Calls : WF_vars(Terminate(c)) /\ WF_vars(Resume(c))

TypeOK ==
    /\ platform \in Platforms
    /\ \A c \in Calls :
        /\ pc[c] \in {"none", "idle", "awaiting", "done"}
        /\ child[c].phase \in {"none", "running", "errored", "closed"}
        /\ chunksLeft[c] \in 0..(MaxChunks + MaxChunksConc + 2)
        /\ promise[c].state \in {"pending", "fulfilled", "rejected"}
        /\ result[c].state \in {"pending", "resolved", "rejected"}

\* ------------------------------------- registerMongoCommands: actions
\* What an earlier session left under connectedDBKey, and the trees the
\* session starts with: the persisted node may be gone.
PersistedIds == {None} \cup {Some(n) : n \in Nodes}

InitialTrees == SUBSET Nodes \ {{}}

\* activation: loadPersistedMongoDB has run up to its first await
InitMongo ==
    /\ InitCommon
    /\ platform = "posix"
    /\ req = [c \in Calls |-> NoRequest]
    /\ pc = [c \in Calls |-> "none"]
    /\ chunksLeft = [c \in Calls |-> 0]
    /\ connectedMongoDB = None
    /\ globalState \in PersistedIds
    /\ clientLog = <<>>
    /\ tree \in InitialTrees
    /\ tasks = [t \in TaskIds |-> NoTask]
    /\ loadTask = [pc |-> IF globalState = None THEN "settled" ELSE "finding",
                   persistedNodeId |-> globalState]

cpVars == <<platform, req, pc, child, chunksLeft, cmdOutput,
            cmdOutputIncludingStderr, promise, result, effects, events>>

\* invocations are numbered in the order they are made
NextInvocation(t) ==
    /\ t \in UserTasks /\ tasks[t].kind = "none"
    /\ \A u \in UserTasks : u < t => tasks[u].kind # "none"

\* the node argument of a command: none, or a node of the tree
NodeArgs == {None} \cup {Some(n) : n \in tree}

SetTask(t, kind, p, node) ==
    [tasks EXCEPT ![t] = [@ EXCEPT !.kind = kind, !.pc = p, !.node = node]]

\* lines 120-121: remember the connected node's id, call languageClient.connect
StartConnect(t, n) ==
    /\ tasks' = [tasks EXCEPT ![t] =
                    [@ EXCEPT !.kind = "connect", !.pc = "connecting",
                              !.node = Some(n), !.oldNodeId = connectedMongoDB]]
    /\ clientLog' = Append(clientLog, [op |-> "connect", db |-> n, task |-> t])

\* 'cosmosDB.connectMongoDB' is invoked
InvokeConnectMongoDB(t, arg) ==
    /\ NextInvocation(t)
    /\ arg \in NodeArgs
    /\ IF arg = None
       THEN /\ tasks' = SetTask(t, "connect", "picking", None)
            /\ UNCHANGED clientLog
       ELSE StartConnect(t, arg[1])
    /\ UNCHANGED <<cpVars, connectedMongoDB, globalState, tree, loadTask>>

\* tree.showNodePicker resolves with the node the user picked
ConnectPicked(t, n) ==
    /\ tasks[t].kind = "connect" /\ tasks[t].pc = "picking"
    /\ n \in tree
    /\ StartConnect(t, n)
    /\ UNCHANGED <<cpVars, connectedMongoDB, globalState, tree, loadTask>>

\* tree.showNodePicker rejects (the user cancelled)
PickerCancelled(t) ==
    /\ tasks[t].pc = "picking"
    /\ tasks' = [tasks EXCEPT ![t].pc = "failed"]
    /\ UNCHANGED <<cpVars, connectedMongoDB, globalState, clientLog, tree, loadTask>>

PersistedAfterConnectStale(n) == globalState

\* context.globalState.update(connectedDBKey, node.id)
PersistedAfterConnect(n) == Some(n)

\* languageClient.connect resolved: lines 122-124
ConnectResolved(t) ==
    /\ tasks[t].kind = "connect" /\ tasks[t].pc = "connecting"
    /\ globalState' = PersistedAfterConnect(tasks[t].node[1])
    /\ connectedMongoDB' = tasks[t].node
    /\ tasks' = [tasks EXCEPT ![t] =
                    [@ EXCEPT !.pc = "refreshing",
                              !.refreshed = Append(@, tasks[t].node[1])]]
    /\ UNCHANGED <<cpVars, clientLog, tree, loadTask>>

ConnectRejectedEager(t) ==
    /\ tasks[t].kind = "connect" /\ tasks[t].pc = "connecting"
    /\ tasks' = [tasks EXCEPT ![t].pc = "failed"]
    /\ connectedMongoDB' = tasks[t].node
    /\ UNCHANGED <<cpVars, globalState, clientLog, tree, loadTask>>

\* languageClient.connect rejected: the handler throws at line 121
ConnectRejected(t) ==
    /\ tasks[t].kind = "connect" /\ tasks[t].pc = "connecting"
    /\ tasks' = [tasks EXCEPT ![t].pc = "failed"]
    /\ UNCHANGED <<cpVars, connectedMongoDB, globalState, clientLog, tree, loadTask>>

\* node.refresh() settled: lines 124-128
NodeRefreshed(t, ok) ==
    /\ tasks[t].kind = "connect" /\ tasks[t].pc = "refreshing"
    /\ tasks' = [tasks EXCEPT ![t].pc =
                    IF ~ok THEN "failed"
                    ELSE IF tasks[t].oldNodeId # None THEN "finding"
                    ELSE "done"]
    /\ UNCHANGED <<cpVars, connectedMongoDB, globalState, clientLog, tree, loadTask>>

\* tree.findNode(oldNodeId) resolved: lines 128-131
OldNodeFound(t) ==
    /\ tasks[t].kind = "connect" /\ tasks[t].pc = "finding"
    /\ tasks' = [tasks EXCEPT ![t] =
                    IF tasks[t].oldNodeId[1] \in tree
                    THEN [@ EXCEPT !.pc = "refreshingOld",
                                   !.refreshed = Append(@, tasks[t].oldNodeId[1])]
                    ELSE [@ EXCEPT !.pc = "done"]]
    /\ UNCHANGED <<cpVars, connectedMongoDB, globalState, clientLog, tree, loadTask>>

\* oldNode.refresh() settled: line 130
OldNodeRefreshed(t, ok) ==
    /\ tasks[t].kind = "connect" /\ tasks[t].pc = "refreshingOld"
    /\ tasks' = [tasks EXCEPT ![t].pc = IF ok THEN "done" ELSE "failed"]
    /\ UNCHANGED <<cpVars, connectedMongoDB, globalState, clientLog, tree, loadTask>>

\* 'cosmosDB.deleteMongoDB' is invoked: lines 135-138
InvokeDeleteMongoDB(t, arg) ==
    /\ NextInvocation(t)
    /\ arg \in NodeArgs
    /\ tasks' = IF arg = None THEN SetTask(t, "delete", "picking", None)
                ELSE SetTask(t, "delete", "deleting", arg)
    /\ UNCHANGED <<cpVars, connectedMongoDB, globalState, clientLog, tree, loadTask>>

DeletePicked(t, n) ==
    /\ tasks[t].kind = "delete" /\ tasks[t].pc = "picking"
    /\ n \in tree
    /\ tasks' = SetTask(t, "delete", "deleting", Some(n))
    /\ UNCHANGED <<cpVars, connectedMongoDB, globalState, clientLog, tree, loadTask>>

ClearsConnectionAlways(n) == connectedMongoDB # None

\* ext.connectedMongoDB && ext.connectedMongoDB.id === node.id
ClearsConnection(n) == connectedMongoDB # None /\ connectedMongoDB[1] = n

\* node.deleteNode() resolved: lines 139-143
DeleteResolved(t) ==
    /\ tasks[t].kind = "delete" /\ tasks[t].pc = "deleting"
    /\ tree' = tree \ {tasks[t].node[1]}
    /\ tasks' = [tasks EXCEPT ![t].pc = "done"]
    /\ IF ClearsConnection(tasks[t].node[1])
       THEN /\ connectedMongoDB' = None
            /\ globalState' = None
            /\ clientLog' = Append(clientLog,
                   [op |-> "disconnect", db |-> tasks[t].node[1], task |-> t])
       ELSE UNCHANGED <<connectedMongoDB, globalState, clientLog>>
    /\ UNCHANGED <<cpVars, loadTask>>

\* node.deleteNode() rejected: the handler throws at line 138
DeleteRejected(t) ==
    /\ tasks[t].kind = "delete" /\ tasks[t].pc = "deleting"
    /\ tasks' = [tasks EXCEPT ![t].pc = "failed"]
    /\ UNCHANGED <<cpVars, connectedMongoDB, globalState, clientLog, tree, loadTask>>

\* 'cosmosDB.executeMongoCommand' / 'cosmosDB.executeAllMongoCommands'
InvokeExecute(t, kind) ==
    /\ NextInvocation(t)
    /\ kind \in {"execute", "executeAll"}
    /\ tasks' = SetTask(t, kind, "awaitLoad", None)
    /\ UNCHANGED <<cpVars, connectedMongoDB, globalState, clientLog, tree, loadTask>>

LoadNotAwaited == TRUE

\* await loadPersistedMongoDBTask
LoadAwaited == loadTask.pc = "settled"

\* lines 167 / 171: ext.connectedMongoDB is read and passed to MongoCommands
ExecuteAfterLoad(t) ==
    /\ tasks[t].kind \in {"execute", "executeAll"} /\ tasks[t].pc = "awaitLoad"
    /\ LoadAwaited
    /\ tasks' = [tasks EXCEPT ![t] =
                    [@ EXCEPT !.pc = "executing",
                              !.read = Some(connectedMongoDB),
                              !.readAfterLoad = (loadTask.pc = "settled")]]
    /\ UNCHANGED <<cpVars, connectedMongoDB, globalState, clientLog, tree, loadTask>>

ExecuteFinished(t, ok) ==
    /\ tasks[t].kind \in {"execute", "executeAll"} /\ tasks[t].pc = "executing"
    /\ tasks' = [tasks EXCEPT ![t].pc = IF ok THEN "done" ELSE "failed"]
    /\ UNCHANGED <<cpVars, connectedMongoDB, globalState, clientLog, tree, loadTask>>

\* loadPersistedMongoDB: tree.findNode(persistedNodeId) resolved
LoadFound ==
    /\ loadTask.pc = "finding"
    /\ loadTask' = [loadTask EXCEPT !.pc =
                       IF loadTask.persistedNodeId[1] \in tree
                       THEN "ready" ELSE "settled"]
    /\ UNCHANGED <<cpVars, connectedMongoDB, globalState, clientLog, tree, tasks>>

\* languageClient.client.onReady() settled; on success the connect command
\* is executed with the persisted node
LoadClientReady(ok) ==
    /\ loadTask.pc = "ready"
    /\ IF ok
       THEN /\ StartConnect(LoadChild, loadTask.persistedNodeId[1])
            /\ loadTask' = [loadTask EXCEPT !.pc = "connecting"]
       ELSE /\ loadTask' = [loadTask EXCEPT !.pc = "settled"]
            /\ UNCHANGED <<tasks, clientLog>>
    /\ UNCHANGED <<cpVars, connectedMongoDB, globalState, tree>>

\* the connect command ended; its error, if any, went to the action handler
LoadCommandEnded ==
    /\ loadTask.pc = "connecting"
    /\ tasks[LoadChild].pc \in {"done", "failed"}
    /\ loadTask' = [loadTask EXCEPT !.pc = "settled"]
    /\ UNCHANGED <<cpVars, connectedMongoDB, globalState, clientLog, tree, tasks>>

NextMongo ==
    \/ \E t \in UserTasks, arg \in {None} \cup {Some(n) : n \in Nodes} :
            InvokeConnectMongoDB(t, arg)
    \/ \E t \in TaskIds, n \in Nodes : ConnectPicked(t, n)
    \/ \E t \in TaskIds : PickerCancelled(t)
    \/ \E t \in TaskIds : ConnectResolved(t)
    \/ \E t \in TaskIds : ConnectRejected(t)
    \/ \E t \in TaskIds, ok \in BOOLEAN : NodeRefreshed(t, ok)
    \/ \E t \in TaskIds : OldNodeFound(t)
    \/ \E t \in TaskIds, ok \in BOOLEAN : OldNodeRefreshed(t, ok)
    \/ \E t \in UserTasks, arg \in {None} \cup {Some(n) : n \in Nodes} :
            InvokeDeleteMongoDB(t, arg)
    \/ \E t \in TaskIds, n \in Nodes : DeletePicked(t, n)
    \/ \E t \in TaskIds : DeleteResolved(t)
    \/ \E t \in TaskIds : DeleteRejected(t)
    \/ \E t \in UserTasks, kind \in {"execute", "executeAll"} : InvokeExecute(t, kind)
    \/ \E t \in TaskIds : ExecuteAfterLoad(t)
    \/ \E t \in TaskIds, ok \in BOOLEAN : ExecuteFinished(t, ok)
    \/ LoadFound
    \/ \E ok \in BOOLEAN : LoadClientReady(ok)
    \/ LoadCommandEnded

SpecMongo == InitMongo /\ [][NextMongo]_vars

MongoTypeOK ==
    /\ connectedMongoDB \in {None} \cup {Some(n) : n \in Nodes}
    /\ globalState \in {None} \cup {Some(n) : n \in Nodes}
    /\ tree \subseteq Nodes
    /\ loadTask.pc \in {"finding", "ready", "connecting", "settled"}
    /\ \A t \in TaskIds :
        /\ tasks[t].kind \in {"none", "connect", "delete", "execute", "executeAll"}
        /\ tasks[t].pc \in {"none", "picking", "connecting", "refreshing",
                            "finding", "refreshingOld", "deleting", "awaitLoad",
                            "executing", "done", "failed"}

\* ------------------------------------------------- the history of a call
RECURSIVE StdoutText(_)
StdoutText(evs) ==
    IF evs = <<>> THEN <<>>
    ELSE (IF evs[1].type = "stdout" THEN BufferToString(evs[1].data) ELSE <<>>)
         \o StdoutText(Tail(evs))

RECURSIVE CombinedText(_)
CombinedText(evs) ==
    IF evs = <<>> THEN <<>>
    ELSE (IF evs[1].type \in {"stdout", "stderr"}
          THEN BufferToString(evs[1].data) ELSE <<>>)
         \o CombinedText(Tail(evs))

HasEvent(c, type) == \E i \in 1..Len(events[c]) : events[c][i].type = type

ClosedWith(c, code) ==
    \E i \in 1..Len(events[c]) :
        events[c][i].type = "close" /\ events[c][i].code = code

ClosedNonZero(c) ==
    \E i \in 1..Len(events[c]) :
        events[c][i].type = "close" /\ events[c][i].code # Some(0)

CloseCode(c) == events[c][Len(events[c])].code

Positions(c, op) == {i \in 1..Len(effects[c]) : effects[c][i].op = op}

LinePositions(c, line) ==
    {i \in 1..Len(effects[c]) :
        effects[c][i].op = "appendLine" /\ effects[c][i].text = line}

Contains(s, t) ==
    \E i \in 0..(Len(s) - Len(t)) : SubSeq(s, i + 1, i + Len(t)) = t

EndsWith(s, t) ==
    Len(t) <= Len(s) /\ SubSeq(s, Len(s) - Len(t) + 1, Len(s)) = t

\* the part of a message before a given ending
Before(s, t) == SubSeq(s, 1, Len(s) - Len(t))

\* ------------------------------------------------------------------- C1
\* C1: a call whose process closes with exit code 0, with no 'error' event
\* before it, resolves with the concatenation of the decoded stdout chunks in
\* arrival order; no stderr chunk is part of it.
C1_SuccessReturnsStdout ==
    \A c \in Calls :
        (pc[c] = "done" /\ ClosedWith(c, Some(0)) /\ ~HasEvent(c, "error"))
            => /\ result[c].state = "resolved"
               /\ result[c].value = StdoutText(events[c])

C1_Witness ==
    \E c \in Calls :
        /\ pc[c] = "done" /\ ClosedWith(c, Some(0))
        /\ result[c].state = "resolved"
        /\ Len(events[c]) = 3
        /\ events[c][1].type = "stderr" /\ events[c][2].type = "stdout"
        /\ result[c].value # <<>>

\* ------------------------------------------------------------------- C2
DetailedShape(c) ==
    LET msg == result[c].error.message
        tail == EOL \o CombinedText(events[c])
    IN /\ result[c].state = "rejected"
       /\ EndsWith(msg, tail)
       /\ Contains(Before(msg, tail), req[c].command)
       /\ Contains(Before(msg, tail), Join(req[c].args, " "))
       /\ Contains(Before(msg, tail), CodeText(CloseCode(c)))

\* C2 as stated: without a channel, every close with a non-zero code rejects
\* with the message embedding command, arguments, code and all output.
C2_Original ==
    \A c \in Calls :
        (pc[c] = "done" /\ ~req[c].outputChannel /\ ClosedNonZero(c))
            => DetailedShape(c)

\* C2 (amended): without a channel, a close with a non-zero code that no
\* 'error' event preceded rejects with a message that contains the command,
\* the space-joined arguments and the exit code and ends with the line
\* terminator followed by every stdout and stderr chunk in arrival order.
C2_DetailedFailureMessage ==
    \A c \in Calls :
        (pc[c] = "done" /\ ~req[c].outputChannel /\ ClosedNonZero(c)
            /\ ~HasEvent(c, "error"))
            => DetailedShape(c)

C2_Witness ==
    \E c \in Calls :
        /\ pc[c] = "done" /\ ~req[c].outputChannel
        /\ ClosedWith(c, Some(127)) /\ ~HasEvent(c, "error")
        /\ Len(events[c]) = 3
        /\ events[c][1].type = "stdout" /\ events[c][2].type = "stderr"
        /\ req[c].args # <<>>
        /\ result[c].state = "rejected"

\* ------------------------------------------------------------------- C3
GenericShape(c) ==
    /\ result[c].state = "rejected"
    /\ result[c].error.message =
           <<"Failed to run \"">> \o req[c].command
               \o <<"\" command. Check output window for more details.">>
    /\ Positions(c, "show") # {}
    /\ \A i \in Positions(c, "show"), j \in Positions(c, "reject") : i < j

\* C3 as stated: with a channel, every close with a non-zero code rejects
\* with exactly the generic message, after outputChannel.show().
C3_Original ==
    \A c \in Calls :
        (pc[c] = "done" /\ req[c].outputChannel /\ ClosedNonZero(c))
            => GenericShape(c)

\* C3 (amended): with a channel, a close with a non-zero code that no 'error'
\* event preceded rejects with exactly the generic message, and
\* outputChannel.show() is called before reject.
C3_GenericFailureMessage ==
    \A c \in Calls :
        (pc[c] = "done" /\ req[c].outputChannel /\ ClosedNonZero(c)
            /\ ~HasEvent(c, "error"))
            => GenericShape(c)

C3_Witness ==
    \E c \in Calls :
        /\ pc[c] = "done" /\ req[c].outputChannel
        /\ ClosedWith(c, Some(1)) /\ ~HasEvent(c, "error")
        /\ events[c][1].type = "stderr"
        /\ req[c].args # <<>>
        /\ result[c].state = "rejected"
        /\ Positions(c, "show") # {}

\* ------------------------------------------------------------------- C4
\* C4: after an 'error' event the call fails with that error object, no
\* exit-code-based message is constructed and the channel is not revealed,
\* also when a 'close' with a non-zero code follows the 'error'.
C4_SpawnErrorOnly ==
    \A c \in Calls :
        HasEvent(c, "error")
            => /\ pc[c] = "done" =>
                    /\ result[c].state = "rejected"
                    /\ result[c].error = SpawnError(events[c][1].code[1])
               /\ Positions(c, "newError") = {}
               /\ Positions(c, "show") = {}

\* ------------------------------------------------------------------- C5
\* the outcome the first 'error' or 'close' event of a call stands for
FirstTerminal(c) ==
    LET i == CHOOSE k \in 1..Len(events[c]) :
                /\ events[c][k].type \in {"error", "close"}
                /\ \A j \in 1..(k - 1) : events[c][j].type \notin {"error", "close"}
    IN events[c][i]

OutcomeKind(c) ==
    IF FirstTerminal(c).type = "close" /\ FirstTerminal(c).code = Some(0)
    THEN "resolved" ELSE "rejected"

\* C5: a call has one outcome: its promise and its result are never changed
\* once settled, and the outcome is the one of the first 'error' or 'close'
\* event, whatever is delivered afterwards.
C5_SingleOutcome ==
    /\ [][\A c \in Calls :
            /\ promise[c].state # "pending" => promise'[c] = promise[c]
            /\ result[c].state # "pending" => result'[c] = result[c]]_vars
    /\ [](\A c \in Calls :
            pc[c] = "done"
                => /\ result[c].state = OutcomeKind(c)
                   /\ result[c].state = "resolved"
                        => result[c].value = cmdOutput[c]
                   /\ FirstTerminal(c).type = "error"
                        => result[c].error.errno = FirstTerminal(c).code[1])

C5_Witness ==
    \E c \in Calls :
        /\ pc[c] = "done"
        /\ Len(events[c]) = 2
        /\ events[c][1].type = "error" /\ events[c][2].type = "close"
        /\ result[c].state = "rejected"
        /\ Positions(c, "reject") # {}

\* ------------------------------------------------------------------- C6
\* C6: a call settles only once an 'error' or 'close' event has been
\* delivered to it, and when every spawned process eventually emits 'close'
\* or 'error', every call that was started eventually resolves or rejects.
C6_SettlesOnTermination ==
    /\ [](\A c \in Calls :
            (promise[c].state # "pending" \/ result[c].state # "pending")
                => (HasEvent(c, "error") \/ HasEvent(c, "close")))
    /\ \A c \in Calls :
            (pc[c] = "awaiting") ~> (pc[c] = "done" /\ result[c].state # "pending")

C6_Witness ==
    \E c \in Calls :
        /\ pc[c] = "done" /\ result[c].state = "resolved"
        /\ Len(events[c]) = 1 + MaxChunks
        /\ events[c][Len(events[c])].type = "close"

\* ------------------------------------------------------------------- C7
\* the outcome of a call as its own arguments and its own events give it
Alone(c) ==
    IF FirstTerminal(c).type = "error"
    THEN [state |-> "rejected", value |-> <<>>,
          error |-> SpawnError(FirstTerminal(c).code[1])]
    ELSE IF FirstTerminal(c).code = Some(0)
    THEN [state |-> "resolved", value |-> StdoutText(events[c]),
          error |-> NoError]
    ELSE [state |-> "rejected", value |-> <<>>,
          error |-> NewError(
              IF req[c].outputChannel
              THEN <<"Failed to run \"">> \o req[c].command
                    \o <<"\" command. Check output window for more details.">>
              ELSE <<"Command \"">> \o req[c].command \o <<" ">>
                    \o Join(req[c].args, " ")
                    \o <<"\" failed with exit code \"">>
                    \o CodeText(FirstTerminal(c).code) \o <<"\":">> \o EOL
                    \o CombinedText(events[c]))]

\* C7: with two calls in flight, the accumulators of each call hold the
\* chunks of its own process only, and its result is the one its own
\* arguments, chunks and exit code give when it runs alone.
C7_CallsIndependent ==
    \A c \in Calls :
        /\ pc[c] \in {"awaiting", "done"}
            => /\ cmdOutput[c] = StdoutText(events[c])
               /\ cmdOutputIncludingStderr[c] = CombinedText(events[c])
        /\ pc[c] = "done" => result[c] = Alone(c)

C7_Witness ==
    /\ pc[1] = "done" /\ pc[2] = "done"
    /\ result[1].state = "resolved" /\ result[1].value # <<>>
    /\ result[2].state = "rejected" /\ ~HasEvent(2, "error")
    /\ events[2][1].type = "stdout"
    /\ events[2][1].data # events[1][1].data

\* ------------------------------------------------------------------- C8
RunningText(c) ==
    <<"Running command: \"">> \o req[c].command \o <<" ">>
        \o Join(req[c].args, " ") \o <<"\"...">>

\* C8 as stated: the 'Running command' line is appended before the process
\* is started.
C8_Original ==
    \A c \in Calls :
        (req[c].outputChannel /\ pc[c] \in {"awaiting", "done"})
            => /\ Cardinality(LinePositions(c, RunningText(c))) = 1
               /\ \A i \in LinePositions(c, RunningText(c)),
                     j \in Positions(c, "spawn") \cup Positions(c, "append") : i < j

\* C8 (amended): with a channel, the 'Running command' line is appended
\* right after cp.spawn has returned, in the same synchronous step, exactly
\* once per call, so that it precedes every output chunk appended to the
\* channel.
C8_RunningLineFirst ==
    \A c \in Calls :
        (req[c].outputChannel /\ pc[c] \in {"awaiting", "done"})
            => /\ LinePositions(c, RunningText(c)) = {2}
               /\ Positions(c, "spawn") = {1}
               /\ \A j \in Positions(c, "append") : 2 < j

C8_Witness ==
    \E c \in Calls :
        /\ req[c].outputChannel /\ pc[c] = "done"
        /\ req[c].args # <<>>
        /\ Cardinality(Positions(c, "append")) = MaxChunks
        /\ LinePositions(c, RunningText(c)) # {}

\* ------------------------------------------------------------------- C9
FinishedText(c) ==
    <<"Finished running command: \"">> \o req[c].command \o <<" ">>
        \o Join(req[c].args, " ") \o <<"\".">>

\* C9: with a channel, the 'Finished running command' line is in the channel
\* if and only if a 'close' with exit code 0 was delivered; it is appended
\* once, after every output chunk and before resolve; a call that resolved
\* has it, and a non-zero exit or a spawn error never appends it.
C9_FinishedLineOnSuccess ==
    \A c \in Calls :
        req[c].outputChannel
            => /\ Cardinality(LinePositions(c, FinishedText(c))) =
                      (IF ClosedWith(c, Some(0)) THEN 1 ELSE 0)
               /\ \A i \in LinePositions(c, FinishedText(c)) :
                      /\ \A j \in Positions(c, "append") : j < i
                      /\ \A j \in Positions(c, "resolve") : i < j
                      /\ Cardinality(Positions(c, "append")) =
                             Len(events[c]) - 1
               /\ result[c].state = "resolved"
                      => LinePositions(c, FinishedText(c)) # {}
               /\ (HasEvent(c, "error") \/ ClosedNonZero(c))
                      => LinePositions(c, FinishedText(c)) = {}

C9_Witness ==
    \E c \in Calls :
        /\ req[c].outputChannel /\ pc[c] = "done"
        /\ result[c].state = "resolved"
        /\ Cardinality(Positions(c, "append")) = MaxChunks
        /\ LinePositions(c, FinishedText(c)) # {}
        /\ Positions(c, "resolve") # {}

\* ------------------------------------------------------------------ C10
\* C10 as stated: the spawned process runs in the workingDirectory argument
\* whenever one is given, and in the temporary directory exactly when the
\* argument is absent.
C10_Original ==
    \A c \in Calls :
        child[c].phase # "none"
            => /\ req[c].workingDirectory # None
                    => child[c].cwd = req[c].workingDirectory[1]
               /\ child[c].cwd = TmpDir <=> req[c].workingDirectory = None

\* C10 (amended): the spawned process runs in the workingDirectory argument
\* whenever a non-empty one is given, and in the system temporary directory
\* when the argument is absent or the empty string.
C10_WorkingDirectory ==
    \A c \in Calls :
        child[c].phase # "none"
            => /\ (req[c].workingDirectory # None
                        /\ req[c].workingDirectory[1] # "")
                    => child[c].cwd = req[c].workingDirectory[1]
               /\ (req[c].workingDirectory = None
                        \/ req[c].workingDirectory = Some(""))
                    => child[c].cwd = TmpDir
               /\ child[c].shell

C10_Witness ==
    \E c \in Calls :
        /\ child[c].phase = "closed"
        /\ req[c].workingDirectory = Some("")
        /\ child[c].cwd = TmpDir

\* ------------------------------------------------------------------ C11
\* the texts passed to outputChannel.append, in the order of the calls
RECURSIVE AppendedTexts(_)
AppendedTexts(log) ==
    IF log = <<>> THEN <<>>
    ELSE (IF log[1].op = "append" THEN <<log[1].text>> ELSE <<>>)
         \o AppendedTexts(Tail(log))

RECURSIVE DataTexts(_)
DataTexts(evs) ==
    IF evs = <<>> THEN <<>>
    ELSE (IF evs[1].type \in {"stdout", "stderr"}
          THEN <<BufferToString(evs[1].data)>> ELSE <<>>)
         \o DataTexts(Tail(evs))

RECURSIVE Flatten(_)
Flatten(texts) ==
    IF texts = <<>> THEN <<>> ELSE texts[1] \o Flatten(Tail(texts))

\* C11: in every state of a call with a channel, the texts appended to the
\* channel so far are the decoded chunks delivered so far, one append per
\* chunk in arrival order; their concatenation is the combined accumulator,
\* and the stdout accumulator is the same sequence without the stderr chunks.
C11_ChannelMirrorsAccumulators ==
    \A c \in Calls :
        (req[c].outputChannel /\ pc[c] \in {"awaiting", "done"})
            => /\ AppendedTexts(effects[c]) = DataTexts(events[c])
               /\ Flatten(AppendedTexts(effects[c])) = cmdOutputIncludingStderr[c]
               /\ cmdOutput[c] = StdoutText(events[c])

C11_Witness ==
    \E c \in Calls :
        /\ req[c].outputChannel /\ pc[c] = "awaiting"
        /\ Len(events[c]) = 2
        /\ events[c][1].type = "stderr" /\ events[c][2].type = "stdout"
        /\ Len(AppendedTexts(effects[c])) = 2
        /\ cmdOutput[c] # cmdOutputIncludingStderr[c]

\* ------------------------------------------------------------------ C12
Settled(t) == tasks[t].pc \in {"none", "done", "failed"}

AllSettled == loadTask.pc = "settled" /\ \A t \in TaskIds : Settled(t)

ConnectCalls == {i \in 1..Len(clientLog) : clientLog[i].op = "connect"}

\* languageClient.connect resolved for a task: the task went on to refresh
ConnectSucceeded(t) == tasks[t].kind = "connect" /\ tasks[t].refreshed # <<>>

LastCall == clientLog[Len(clientLog)]

\* C12: once overlapping 'cosmosDB.connectMongoDB' invocations have all run
\* to completion, ext.connectedMongoDB and the id stored under connectedDBKey
\* are the database of the most recently issued languageClient.connect call
\* (a call that succeeded, with no disconnect after it).
C12_LastConnectWins ==
    (/\ AllSettled
     /\ Cardinality(ConnectCalls) >= 2
     /\ LastCall.op = "connect"
     /\ ConnectSucceeded(LastCall.task))
        => /\ connectedMongoDB = Some(LastCall.db)
           /\ globalState = Some(LastCall.db)

\* ------------------------------------------------------------------ C13
\* C13 as stated: at every await the stored id is the id of
\* ext.connectedMongoDB, or both are undefined.
C13_Original == globalState = connectedMongoDB

\* C13 (amended): every step that changes ext.connectedMongoDB or the id
\* stored under connectedDBKey sets both to the same node id, or both to
\* undefined, in one synchronous step; so they agree at every await from the
\* first such step on, and always when the session started with nothing
\* persisted.
C13_UpdatedTogether ==
    /\ [][(connectedMongoDB' # connectedMongoDB \/ globalState' # globalState)
            => globalState' = connectedMongoDB']_vars
    /\ [][globalState = connectedMongoDB
            => globalState' = connectedMongoDB']_vars
    /\ [](loadTask.persistedNodeId = None => globalState = connectedMongoDB)

C13_Witness ==
    /\ loadTask.persistedNodeId # None
    /\ \E t \in UserTasks :
        /\ tasks[t].kind = "connect" /\ tasks[t].pc = "refreshing"
        /\ tasks[t].oldNodeId = None
        /\ tasks[t].node # loadTask.persistedNodeId
        /\ connectedMongoDB = tasks[t].node
        /\ globalState = tasks[t].node

\* ------------------------------------------------------------------ C14
\* C14: when node.deleteNode() has succeeded and the deleted node is the
\* connected database, ext.connectedMongoDB and connectedDBKey are cleared
\* and languageClient.disconnect() is called; when another database was
\* deleted, or deleteNode failed, the three are left as they were.
C14_DeleteClearsOnlyConnected ==
    [][\A t \in TaskIds :
        (tasks[t].kind = "delete" /\ tasks[t].pc = "deleting"
            /\ tasks'[t].pc # "deleting")
            => IF tasks'[t].pc = "done" /\ connectedMongoDB = tasks[t].node
               THEN /\ connectedMongoDB' = None
                    /\ globalState' = None
                    /\ Len(clientLog') = Len(clientLog) + 1
                    /\ clientLog'[Len(clientLog')].op = "disconnect"
                    /\ SubSeq(clientLog', 1, Len(clientLog)) = clientLog
               ELSE UNCHANGED <<connectedMongoDB, globalState, clientLog>>]_vars

C14_Witness ==
    \E t \in UserTasks :
        /\ tasks[t].kind = "delete" /\ tasks[t].pc = "done"
        /\ connectedMongoDB = None /\ globalState = None
        /\ Len(clientLog) = 2
        /\ clientLog[1].op = "connect" /\ clientLog[1].db = tasks[t].node[1]
        /\ clientLog[2].op = "disconnect"

\* ------------------------------------------------------------------ C15
\* C15: when languageClient.connect rejects, the command fails and does
\* nothing more: the step leaves ext.connectedMongoDB and the stored id as
\* they are, and the command has refreshed no node and never will.
C15_FailedConnectChangesNothing ==
    /\ [][\A t \in TaskIds :
            (tasks[t].kind = "connect" /\ tasks[t].pc = "connecting"
                /\ tasks'[t].pc = "failed")
                => /\ UNCHANGED <<connectedMongoDB, globalState>>
                   /\ tasks'[t].refreshed = <<>>]_vars
    /\ [][\A t \in TaskIds :
            tasks[t].pc = "failed" => tasks'[t] = tasks[t]]_vars
    /\ [](\A t \in TaskIds :
            (tasks[t].kind = "connect" /\ tasks[t].pc = "failed"
                /\ tasks[t].refreshed = <<>>
                /\ \A u \in TaskIds \ {t} : tasks[u].kind = "none")
                => /\ connectedMongoDB = tasks[t].oldNodeId
                   /\ connectedMongoDB = None
                   /\ globalState = loadTask.persistedNodeId)

C15_Witness ==
    \E t \in UserTasks :
        /\ tasks[t].kind = "connect" /\ tasks[t].pc = "failed"
        /\ tasks[t].refreshed = <<>>
        /\ tasks[t].node # None
        /\ connectedMongoDB # None /\ connectedMongoDB # tasks[t].node
        /\ globalState = connectedMongoDB

\* ------------------------------------------------------------------ C16
\* the persisted node was found and the connect command run for it succeeded
PersistedConnected ==
    /\ loadTask.persistedNodeId # None
    /\ tasks[LoadChild].kind = "connect"
    /\ tasks[LoadChild].refreshed # <<>>

NoOtherCommand ==
    \A u \in UserTasks : tasks[u].kind \notin {"connect", "delete"}

\* C16: the execute commands read ext.connectedMongoDB and call
\* MongoCommands only when loadPersistedMongoDBTask has settled; when the
\* persisted node was found and connected (and no other connect or delete
\* command ran), the value they read is that node.
C16_ExecuteWaitsForLoad ==
    [][\A t \in TaskIds :
        (tasks[t].pc = "awaitLoad" /\ tasks'[t].pc # "awaitLoad")
            => /\ loadTask.pc = "settled"
               /\ tasks'[t].readAfterLoad
               /\ tasks'[t].read = Some(connectedMongoDB)
               /\ (PersistedConnected /\ NoOtherCommand)
                    => tasks'[t].read = Some(loadTask.persistedNodeId)]_vars

C16_Witness ==
    \E t \in UserTasks :
        /\ tasks[t].kind \in {"execute", "executeAll"}
        /\ tasks[t].pc = "executing"
        /\ PersistedConnected /\ NoOtherCommand
        /\ tasks[t].read = Some(Some("db1"))
====
